---- MODULE Spec2Model ----
(***************************************************************************)
(* A model of the weather client (src/src/weather_app/api/weather_client.py *)
(* WeatherStackClient), of the location store                               *)
(* (src/src/weather_app/storage/location_storage.py LocationStorage) and of *)
(* ZIP validation as the two implement it.                                  *)
(*                                                                          *)
(* Time is the value of time.time(), read in whole seconds.  A string that  *)
(* is validated is a sequence of characters; other strings are TLA+         *)
(* strings.  A JSON object is a function from its keys, a JSON list a       *)
(* sequence.  A URL is the sequence of its parts.                           *)
(***************************************************************************)
EXTENDS Integers, Sequences, FiniteSets, TLC

VARIABLES
    now,                \* the clock: what time.time() returns
    cache_timeout,      \* WeatherStackClient.cache_timeout
    last_request_time,  \* WeatherStackClient._last_request_time
    weather_cache,      \* WeatherStackClient._weather_cache
    cache_timestamps,   \* WeatherStackClient._cache_timestamps
    base_url,           \* WeatherStackClient.base_url
    session,            \* WeatherStackClient.session: "open" or "closed"
    call,               \* the latest get_weather call, as its caller and the network saw it
    prev_call,          \* the get_weather call before it
    prev_request_start, \* when the latest network request before `call` started (0: none)
    calls,              \* the number of get_weather calls made
    cleanup_call,       \* the latest cleanup call
    raised,             \* the <<cause, exception class>> pairs of the failed get_weather calls
    construction,       \* the call of WeatherStackClient's constructor
    locations,          \* LocationStorage.locations
    storage_file,       \* the file at LocationStorage.storage_file
    store_call,         \* the latest call of a LocationStorage method
    store_calls,        \* the number of LocationStorage calls made
    unsaved,            \* the latest write of the file failed
    threads,            \* the threads that call the store concurrently
    zip_input,          \* the string handed to the two ZIP validators
    zip_verdict         \* what each validator answered for zip_input

vars == <<now, cache_timeout, last_request_time, weather_cache, cache_timestamps,
          base_url, session, call, prev_call, prev_request_start, calls,
          cleanup_call, raised, construction, locations, storage_file,
          store_call, store_calls, unsaved, threads, zip_input, zip_verdict>>

storeVars == <<locations, storage_file, store_call, store_calls, unsaved, threads>>

clientVars == <<now, cache_timeout, last_request_time, weather_cache,
                cache_timestamps, base_url, session, call, prev_call,
                prev_request_start, calls, cleanup_call, raised, construction>>

zipVars == <<zip_input, zip_verdict>>

----------------------------------------------------------------------------
(* Bounds of the model *)

MaxTime == 5            \* the clock stops here
MaxCalls == 3           \* get_weather calls in one behaviour
MaxNetDelay == 1        \* seconds between a request's start and its response
MaxCacheTimeout == 2    \* the client is constructed with cache_timeout in 1..MaxCacheTimeout
MaxZipLen == 6          \* the longest string handed to a ZIP validator
MaxParseCalls == 2      \* get_weather calls in one behaviour of AnyResponseSpec
MaxErrorCalls == 2      \* get_weather calls in one behaviour of ErrorSpec
MaxUrlCalls == 2        \* get_weather calls in one behaviour of UrlSpec
MaxCleanupCalls == 2    \* get_weather calls in one behaviour of CleanupSpec
MaxKeyLen == 33         \* the longest credential, surrounding whitespace aside
MaxPad == 2             \* the most whitespace on either side of a credential
MaxStoreCalls == 3      \* LocationStorage calls in one behaviour
MaxStoreTime == 2       \* the clock stops here in StoreSpec

(* Program constants *)

MinRequestInterval == 1 \* self._min_request_interval = 1.0
ZipLength == 5          \* len(zip_code) == 5
MinApiKeyLength == 32   \* len(self.api_key) >= 32

----------------------------------------------------------------------------
(* Characters and strings *)

AsciiDigits == {"0", "1", "2", "3", "4", "5", "6", "7", "8", "9"}

\* Characters outside ASCII for which str.isnumeric() is true: the Arabic-Indic
\* digit three, superscript two, the vulgar fraction one half.
UnicodeNumerics == {"U+0663", "U+00B2", "U+00BD"}

\* The characters the validated strings are drawn from.
ZipAlphabet == {"1", "9", "a", " ", "U+0663"}

\* str.isnumeric(): every character is numeric and there is at least one.
isnumeric(s) ==
    /\ Len(s) > 0
    /\ \A i \in 1..Len(s) : s[i] \in AsciiDigits \cup UnicodeNumerics

\* WeatherStackClient._validate_zip_code:
\*   bool(zip_code and len(zip_code) == 5 and zip_code.isnumeric())
Client_validate_zip_code(zip_code) ==
    /\ zip_code # <<>>
    /\ Len(zip_code) = ZipLength
    /\ isnumeric(zip_code)

\* LocationStorage._validate_zip_code, the same expression in the store.
Storage_validate_zip_code(zip_code) ==
    /\ zip_code # <<>>
    /\ Len(zip_code) = ZipLength
    /\ isnumeric(zip_code)

StringsUpTo(n) == UNION {[1..k -> ZipAlphabet] : k \in 0..n}

----------------------------------------------------------------------------
(* Dictionaries *)

Put(d, k, v) == [x \in (DOMAIN d) \cup {k} |-> IF x = k THEN v ELSE d[x]]

Del(d, k) == [x \in (DOMAIN d) \ {k} |-> d[x]]

EmptyDict == [x \in {} |-> 0]

----------------------------------------------------------------------------
(* Provider responses *)

\* JSON numbers, in tenths, with the Python type json.loads gives them.
JInt(n) == [type |-> "int", tenths |-> 10 * n]
JFloat(t) == [type |-> "float", tenths |-> t]

\* float(x) of a JSON number: the same value as a float.
float(x) == [type |-> "float", tenths |-> x.tenths]

\* int(x) of a JSON number: truncation toward zero.
int(x) ==
    [type |-> "int",
     tenths |-> IF x.tenths >= 0 THEN (x.tenths \div 10) * 10
                ELSE -(((-x.tenths) \div 10) * 10)]

\* Python's == on numbers compares the values, whatever the types.
NumEq(a, b) == a.tenths = b.tenths

\* datetime.fromtimestamp(epoch)
fromtimestamp(epoch) == [type |-> "datetime", epoch |-> epoch]

FullCurrent ==
    [temperature |-> JInt(72),
     weather_descriptions |-> <<"Clear", "Sunny">>,
     humidity |-> JFloat(405),
     wind_speed |-> JInt(5),
     weather_icons |-> <<"http://x/i.png", "http://x/j.png">>]

FullLocation ==
    [name |-> "New York", region |-> "NY", localtime_epoch |-> 1700000000]

FullResponse == [location |-> FullLocation, current |-> FullCurrent]

\* `obj` without its key k.
Without(obj, k) == [x \in (DOMAIN obj) \ {k} |-> obj[x]]

CurrentKeys == {"temperature", "weather_descriptions", "humidity", "wind_speed",
                "weather_icons"}
LocationKeys == {"name", "region", "localtime_epoch"}

\* The full response with one field of `current` or of `location` left out.
Lacking(k) ==
    IF k \in CurrentKeys
    THEN [location |-> FullLocation, current |-> Without(FullCurrent, k)]
    ELSE [location |-> Without(FullLocation, k), current |-> FullCurrent]

\* The full response with one of the two lists empty.
EmptyList(k) ==
    [location |-> FullLocation, current |-> [FullCurrent EXCEPT ![k] = <<>>]]

ErrorPayload ==
    [success |-> FALSE, error |-> [code |-> 101, info |-> "Invalid access key"]]

ErrorPayloadNoInfo == [success |-> FALSE, error |-> [code |-> 615]]

----------------------------------------------------------------------------
(* What a call gives its caller *)

Return(v) == [kind |-> "return", exc |-> "", msg |-> "", value |-> <<v>>]

Raise(e, m) == [kind |-> "raise", exc |-> e, msg |-> m, value |-> <<>>]

NoResult == [kind |-> "none", exc |-> "", msg |-> "", value |-> <<>>]

\* str(KeyError(k))
KeyErrorStr(k) == "'" \o k \o "'"

\* str(IndexError) for an index past the end of a list
IndexErrorStr == "list index out of range"

----------------------------------------------------------------------------
(* WeatherStackClient *)

\* The first lookup of _parse_weather_data that fails, as str(e) of the KeyError
\* or IndexError it raises; "" when every lookup succeeds.  The lookups are in
\* the order Python evaluates them.
ParseFailure(data) ==
    IF "current" \notin DOMAIN data THEN KeyErrorStr("current")
    ELSE IF "location" \notin DOMAIN data THEN KeyErrorStr("location")
    ELSE LET current == data.current
             location == data.location
         IN  IF "temperature" \notin DOMAIN current THEN KeyErrorStr("temperature")
             ELSE IF "name" \notin DOMAIN location THEN KeyErrorStr("name")
             ELSE IF "weather_descriptions" \notin DOMAIN current
                  THEN KeyErrorStr("weather_descriptions")
             ELSE IF Len(current.weather_descriptions) = 0 THEN IndexErrorStr
             ELSE IF "humidity" \notin DOMAIN current THEN KeyErrorStr("humidity")
             ELSE IF "wind_speed" \notin DOMAIN current THEN KeyErrorStr("wind_speed")
             ELSE IF "weather_icons" \notin DOMAIN current
                  THEN KeyErrorStr("weather_icons")
             ELSE IF Len(current.weather_icons) = 0 THEN IndexErrorStr
             ELSE IF "localtime_epoch" \notin DOMAIN location
                  THEN KeyErrorStr("localtime_epoch")
             ELSE ""

\* The reading _parse_weather_data builds from a response that has every
\* field it reads.
Reading(zip_code, data) ==
    [temperature |-> float(data.current.temperature),
     location_name |-> data.location.name,
     description |-> data.current.weather_descriptions[1],
     humidity |-> int(data.current.humidity),
     wind_speed |-> float(data.current.wind_speed),
     icon_url |-> data.current.weather_icons[1],
     timestamp |-> fromtimestamp(data.location.localtime_epoch),
     zip_code |-> zip_code]

\* A parser that reads humidity with a default, current.get('humidity', 0),
\* and so accepts a response without it.
parse_weather_data_humidity_default(zip_code, data) ==
    IF ParseFailure(data) = KeyErrorStr("humidity")
    THEN Return(Reading(zip_code,
                        [data EXCEPT !.current =
                            Put(data.current, "humidity", JInt(0))]))
    ELSE IF ParseFailure(data) # ""
    THEN Raise("KeyError",
               "Missing required data in API response: " \o ParseFailure(data))
    ELSE Return(Reading(zip_code, data))

\* A parser that takes the last description of the list, not the first.
parse_weather_data_last_description(zip_code, data) ==
    IF ParseFailure(data) # ""
    THEN Raise("KeyError",
               "Missing required data in API response: " \o ParseFailure(data))
    ELSE Return([Reading(zip_code, data) EXCEPT !.description =
                    data.current.weather_descriptions[
                        Len(data.current.weather_descriptions)]])

\* WeatherStackClient._parse_weather_data
parse_weather_data(zip_code, data) ==
    IF ParseFailure(data) # ""
    THEN Raise("KeyError",
               "Missing required data in API response: " \o ParseFailure(data))
    ELSE Return(Reading(zip_code, data))

\* A URL is the sequence of its parts, cut so that the text "https" occurs in
\* it only as a whole part: <<"https", "://", host, "/", segment, ...>>.
\* base_url.startswith('https')
startswith_https(url) == Len(url) > 0 /\ url[1] = "https"

\* base_url.replace('https', 'http'): every occurrence is replaced.
replace_https_http(url) ==
    [i \in 1..Len(url) |-> IF url[i] = "https" THEN "http" ELSE url[i]]

\* The URL get_weather requests (lines 143-145) when self.base_url is `url`.
request_url(url) == IF startswith_https(url) THEN replace_https_http(url) ELSE url

\* WeatherStackClient._apply_rate_limit: the time at which it returns when
\* called at time t (time.sleep(sleep_time) returns sleep_time later).
apply_rate_limit(self, t) ==
    IF self.last_request_time > 0
    THEN LET elapsed == t - self.last_request_time
         IN  IF elapsed < MinRequestInterval
             THEN t + (MinRequestInterval - elapsed)
             ELSE t
    ELSE t

\* A _get_cached_weather for which an entry as old as cache_timeout is valid.
get_cached_weather_inclusive(self, zip_code, t) ==
    IF zip_code \in DOMAIN self.weather_cache
    THEN IF t - self.cache_timestamps[zip_code] <= self.cache_timeout
         THEN [found |-> <<self.weather_cache[zip_code]>>, raised |-> FALSE,
               self |-> self]
         ELSE [found |-> <<>>, raised |-> FALSE,
               self |-> [self EXCEPT
                    !.weather_cache = Del(self.weather_cache, zip_code),
                    !.cache_timestamps = Del(self.cache_timestamps, zip_code)]]
    ELSE [found |-> <<>>, raised |-> FALSE, self |-> self]

\* WeatherStackClient._get_cached_weather at time t: found is <<data>> or <<>>
\* (None); raised is the KeyError of `del self._cache_timestamps[zip_code]`
\* for a key that map does not hold.
get_cached_weather(self, zip_code, t) ==
    IF zip_code \in DOMAIN self.weather_cache
    THEN LET timestamp == IF zip_code \in DOMAIN self.cache_timestamps
                          THEN self.cache_timestamps[zip_code]
                          ELSE 0
         IN  IF t - timestamp < self.cache_timeout
             THEN [found |-> <<self.weather_cache[zip_code]>>, raised |-> FALSE,
                   self |-> self]
             ELSE [found |-> <<>>,
                   raised |-> zip_code \notin DOMAIN self.cache_timestamps,
                   self |-> [self EXCEPT
                        !.weather_cache = Del(self.weather_cache, zip_code),
                        !.cache_timestamps = Del(self.cache_timestamps, zip_code)]]
    ELSE [found |-> <<>>, raised |-> FALSE, self |-> self]

\* WeatherStackClient._cache_weather at time t
cache_weather(self, zip_code, data, t) ==
    [self EXCEPT !.weather_cache = Put(self.weather_cache, zip_code, data),
                 !.cache_timestamps = Put(self.cache_timestamps, zip_code, t)]

\* Python's truth value of a dict: `if cached_data:`
Truthy(data) == DOMAIN data # {}

\* get_weather from `data = response.json()` on (lines 155-168), at time t.
handle_response(self, zip_code, data, t) ==
    IF "error" \in DOMAIN data
    THEN [self |-> self,
          result |-> Raise("ValueError",
                 "API Error: " \o (IF "info" \in DOMAIN data.error
                                   THEN data.error.info
                                   ELSE "Unknown error occurred"))]
    ELSE [self |-> [cache_weather(self, zip_code, data, t)
                        EXCEPT !.last_request_time = t],
          result |-> parse_weather_data(zip_code, data)]

\* A send_request that lets the timeout of requests.get through as the
\* requests exception it is, without converting it.
send_request_timeout_unconverted(self, zip_code, net, t) ==
    LET done == t + net.delay
        url == request_url(self.base_url)
        rewritten == [self EXCEPT !.base_url = url]
    IN  IF net.kind = "json"
        THEN [self |-> handle_response(rewritten, zip_code, net.data, done).self,
              now |-> done, url |-> url,
              result |-> handle_response(rewritten, zip_code, net.data, done).result]
        ELSE [self |-> rewritten, now |-> done, url |-> url,
              result |-> Raise(IF net.kind = "http_error"
                               THEN "requests.HTTPError"
                               ELSE "requests.ConnectionError", "")]

\* get_weather's try block (lines 141-175): the request starts at time t, and
\* net is what the network does with it.  The URL is rewritten, and kept in
\* self.base_url, before the request is sent.
send_request(self, zip_code, net, t) ==
    LET done == t + net.delay
        url == request_url(self.base_url)
        rewritten == [self EXCEPT !.base_url = url]
    IN  CASE net.kind = "timeout" ->
               [self |-> rewritten, now |-> done, url |-> url,
                result |-> Raise("TimeoutError", "Weather API request timed out")]
          [] net.kind = "connection_error" ->
               [self |-> rewritten, now |-> done, url |-> url,
                result |-> Raise("requests.ConnectionError", "")]
          [] net.kind = "http_error" ->
               [self |-> rewritten, now |-> done, url |-> url,
                result |-> Raise("requests.HTTPError", "")]
          [] net.kind = "json" ->
               [self |-> handle_response(rewritten, zip_code, net.data, done).self,
                now |-> done, url |-> url,
                result |-> handle_response(rewritten, zip_code, net.data, done).result]

\* A get_weather that gives a cache entry a new insertion time when it serves
\* a reading from it.
get_weather_valid_touching(self, zip_code, net, t) ==
    LET limited == apply_rate_limit(self, t)
        cached == get_cached_weather(self, zip_code, limited)
        sent == send_request(cached.self, zip_code, net, limited)
    IN  IF cached.found # <<>> /\ Truthy(cached.found[1])
        THEN [self |-> [cached.self EXCEPT
                           !.cache_timestamps = Put(@, zip_code, limited)],
              now |-> limited, slept |-> limited - t, found |-> TRUE,
              requested |-> FALSE, request_at |-> 0, url |-> <<>>,
              result |-> parse_weather_data(zip_code, cached.found[1])]
        ELSE [self |-> sent.self, now |-> sent.now, slept |-> limited - t,
              found |-> cached.found # <<>>,
              requested |-> TRUE, request_at |-> limited, url |-> sent.url,
              result |-> sent.result]

\* get_weather after validation (lines 118-175), called at time t.  found:
\* _get_cached_weather returned an entry.
get_weather_valid(self, zip_code, net, t) ==
    LET limited == apply_rate_limit(self, t)
        cached == get_cached_weather(self, zip_code, limited)
        sent == send_request(cached.self, zip_code, net, limited)
    IN  IF cached.raised
        THEN [self |-> cached.self, now |-> limited, slept |-> limited - t,
              found |-> FALSE,
              requested |-> FALSE, request_at |-> 0, url |-> <<>>,
              result |-> Raise("KeyError", "")]
        ELSE IF cached.found # <<>> /\ Truthy(cached.found[1])
        THEN [self |-> cached.self, now |-> limited, slept |-> limited - t,
              found |-> TRUE,
              requested |-> FALSE, request_at |-> 0, url |-> <<>>,
              result |-> parse_weather_data(zip_code, cached.found[1])]
        ELSE [self |-> sent.self, now |-> sent.now, slept |-> limited - t,
              found |-> cached.found # <<>>,
              requested |-> TRUE, request_at |-> limited, url |-> sent.url,
              result |-> sent.result]

\* A get_weather that applies the rate limit before it validates its argument.
get_weather_limit_first(self, zip_code, net, t) ==
    IF ~Client_validate_zip_code(zip_code)
    THEN [self |-> self, now |-> apply_rate_limit(self, t),
          slept |-> apply_rate_limit(self, t) - t, found |-> FALSE,
          requested |-> FALSE, request_at |-> 0, url |-> <<>>,
          result |-> Raise("ValueError", "Invalid ZIP code format")]
    ELSE get_weather_valid(self, zip_code, net, t)

\* WeatherStackClient.get_weather, called at time t.
get_weather(self, zip_code, net, t) ==
    IF ~Client_validate_zip_code(zip_code)
    THEN [self |-> self, now |-> t, slept |-> 0, found |-> FALSE,
          requested |-> FALSE, request_at |-> 0, url |-> <<>>,
          result |-> Raise("ValueError", "Invalid ZIP code format")]
    ELSE get_weather_valid(self, zip_code, net, t)

\* A cleanup that clears the responses and keeps their insertion times.
cleanup_responses_only(self, close_raises) ==
    IF close_raises
    THEN [self |-> self, result |-> Return("None")]
    ELSE [self |-> [self EXCEPT !.session = "closed", !.weather_cache = EmptyDict],
          result |-> Return("None")]

\* WeatherStackClient.cleanup (lines 89-97).  close_raises: self.session.close()
\* raises; the two clear() calls follow it inside the same try block, and the
\* except clause logs the exception and swallows it.
cleanup(self, close_raises) ==
    IF close_raises
    THEN [self |-> self, result |-> Return("None")]
    ELSE [self |-> [self EXCEPT !.session = "closed",
                                !.weather_cache = EmptyDict,
                                !.cache_timestamps = EmptyDict],
          result |-> Return("None")]

\* The characters str.strip() removes, of those a credential is written with.
Whitespace == {" ", "\t"}

RECURSIVE lstrip(_)
lstrip(s) == IF s # <<>> /\ Head(s) \in Whitespace THEN lstrip(Tail(s)) ELSE s

RECURSIVE rstrip(_)
rstrip(s) ==
    IF s # <<>> /\ s[Len(s)] \in Whitespace
    THEN rstrip(SubSeq(s, 1, Len(s) - 1))
    ELSE s

\* str.strip()
strip(s) == rstrip(lstrip(s))

\* WeatherStackClient._validate_api_key
validate_api_key(api_key) == api_key # <<>> /\ Len(api_key) >= MinApiKeyLength

\* A constructor that validates the credential as it was handed in.
WeatherStackClient_unstripped(api_key, url) ==
    IF ~validate_api_key(api_key)
    THEN [client |-> <<>>, result |-> Raise("ValueError", "Invalid API key format")]
    ELSE [client |-> <<[api_key |-> strip(api_key), base_url |-> url]>>,
          result |-> Return("None")]

\* WeatherStackClient.__init__ (lines 73-78): client is <<the object>>, or <<>>
\* when the constructor raises.
WeatherStackClient(api_key, url) ==
    IF ~validate_api_key(strip(api_key))
    THEN [client |-> <<>>, result |-> Raise("ValueError", "Invalid API key format")]
    ELSE [client |-> <<[api_key |-> strip(api_key), base_url |-> url]>>,
          result |-> Return("None")]

----------------------------------------------------------------------------
(* The location store.  self is the object: [locations |-> the dict].  The  *)
(* file is [kind |-> "missing"] or [kind |-> "json", text |-> the document], *)
(* or of kind "empty" (zero bytes) or "invalid" (text that is not JSON).     *)
(* A document is written as a function from its keys to the members' texts. *)

\* JSON text of a Python str and of a Python bool.
json_str(v) == [t |-> "string", v |-> v]
json_bool(b) == [t |-> "literal", v |-> IF b THEN "true" ELSE "false"]

\* The Python value of a JSON text.
json_value(x) == IF x.t = "literal" THEN x.v = "true" ELSE x.v

\* A json.dump that writes every location as not a favorite.
json_dump_favorite_lost(d) ==
    [k \in DOMAIN d |-> [name |-> json_str(d[k].name),
                         added_at |-> json_str(d[k].added_at),
                         is_favorite |-> json_bool(FALSE)]]

\* json.dump(self.locations, f, indent=2)
json_dump(d) ==
    [k \in DOMAIN d |-> [name |-> json_str(d[k].name),
                         added_at |-> json_str(d[k].added_at),
                         is_favorite |-> json_bool(d[k].is_favorite)]]

\* json.load(f)
json_load(text) ==
    [k \in DOMAIN text |-> [m \in DOMAIN text[k] |-> json_value(text[k][m])]]

MissingFile == [kind |-> "missing", text |-> EmptyDict]

EmptyFile == [kind |-> "empty", text |-> EmptyDict]
InvalidFile == [kind |-> "invalid", text |-> EmptyDict]

\* How writing the file ends.  "denied": open(self.storage_file, 'w') raises
\* PermissionError.  "full_at_start", "full_midway": open succeeds, which
\* empties the file, and the device runs full before any text, or after a part
\* of the text, has been written.
IoOutcomes == {"ok", "denied", "full_at_start", "full_midway"}

\* LocationStorage._load_locations, self being the object __init__ has set up
\* (line 43).  json.load raises JSONDecodeError for text that is no JSON
\* document, zero bytes included.
load_locations(file) ==
    CASE file.kind = "missing" ->
           [self |-> [locations |-> EmptyDict], result |-> Return("None")]
      [] file.kind = "json" ->
           [self |-> [locations |-> json_load(file.text)], result |-> Return("None")]
      [] OTHER ->
           [self |-> [locations |-> EmptyDict],
            result |-> Raise("json.JSONDecodeError", "Expecting value")]

\* LocationStorage.__init__ on the file: store is <<the object>>, or <<>> when
\* the constructor raises.  Nothing in it writes or creates the file.
LocationStorage(file) ==
    LET r == load_locations(file)
    IN  [store |-> IF r.result.kind = "raise" THEN <<>> ELSE <<r.self>>,
         file |-> file, result |-> r.result]

\* LocationStorage._save_locations: the except clause re-raises the IOError.
save_locations(self, file, io) ==
    CASE io = "denied" ->
           [file |-> file, result |-> Raise("IOError", "Permission denied")]
      [] io = "full_at_start" ->
           [file |-> EmptyFile, result |-> Raise("IOError", "No space left on device")]
      [] io = "full_midway" ->
           [file |-> InvalidFile, result |-> Raise("IOError", "No space left on device")]
      [] OTHER ->
           [file |-> [kind |-> "json", text |-> json_dump(self.locations)],
            result |-> Return("None")]

\* What a method returns after self.locations was changed to `changed` and
\* _save_locations was called: `value`, or the IOError re-raised.
saved(changed, file, io, value) ==
    LET w == save_locations([locations |-> changed], file, io)
    IN  [self |-> [locations |-> changed], file |-> w.file, wrote |-> TRUE,
         result |-> IF w.result.kind = "raise" THEN w.result ELSE Return(value)]

\* What a method returns when it raises or returns before any change.
untouched(self, file, result) ==
    [self |-> self, file |-> file, wrote |-> FALSE, result |-> result]

\* The dict entry add_location stores (lines 114-118), at time t.
new_entry(location_name, t) ==
    [name |-> location_name, added_at |-> t, is_favorite |-> FALSE]

\* An add_location that does not check the name.
add_location_name_unchecked(self, file, zip_code, location_name, t, io) ==
    IF ~Storage_validate_zip_code(zip_code)
    THEN untouched(self, file, Raise("ValueError", "Invalid ZIP code format"))
    ELSE saved(Put(self.locations, zip_code, new_entry(location_name, t)),
               file, io, TRUE)

\* An add_location that keeps the entry of a ZIP code it already holds.
add_location_first_wins(self, file, zip_code, location_name, t, io) ==
    IF ~Storage_validate_zip_code(zip_code)
    THEN untouched(self, file, Raise("ValueError", "Invalid ZIP code format"))
    ELSE IF location_name = ""
    THEN untouched(self, file,
                   Raise("ValueError", "Location name must be a non-empty string"))
    ELSE IF zip_code \in DOMAIN self.locations
    THEN saved(self.locations, file, io, TRUE)
    ELSE saved(Put(self.locations, zip_code, new_entry(location_name, t)),
               file, io, TRUE)

\* LocationStorage.add_location, called at time t
add_location(self, file, zip_code, location_name, t, io) ==
    IF ~Storage_validate_zip_code(zip_code)
    THEN untouched(self, file, Raise("ValueError", "Invalid ZIP code format"))
    ELSE IF location_name = ""
    THEN untouched(self, file,
                   Raise("ValueError", "Location name must be a non-empty string"))
    ELSE saved(Put(self.locations, zip_code, new_entry(location_name, t)),
               file, io, TRUE)

\* A remove_location that writes the file whether or not it held the ZIP code.
remove_location_always_saves(self, file, zip_code, io) ==
    IF ~Storage_validate_zip_code(zip_code)
    THEN untouched(self, file, Raise("ValueError", "Invalid ZIP code format"))
    ELSE IF zip_code \in DOMAIN self.locations
    THEN saved(Del(self.locations, zip_code), file, io, TRUE)
    ELSE saved(self.locations, file, io, FALSE)

\* LocationStorage.remove_location
remove_location(self, file, zip_code, io) ==
    IF ~Storage_validate_zip_code(zip_code)
    THEN untouched(self, file, Raise("ValueError", "Invalid ZIP code format"))
    ELSE IF zip_code \in DOMAIN self.locations
    THEN saved(Del(self.locations, zip_code), file, io, TRUE)
    ELSE untouched(self, file, Return(FALSE))

\* A set_favorite that creates the entry of a ZIP code it does not hold.
set_favorite_creates(self, file, zip_code, is_favorite, io) ==
    IF ~Storage_validate_zip_code(zip_code)
    THEN untouched(self, file, Raise("ValueError", "Invalid ZIP code format"))
    ELSE IF zip_code \notin DOMAIN self.locations
    THEN saved(Put(self.locations, zip_code,
                   [name |-> "", added_at |-> 0, is_favorite |-> is_favorite]),
               file, io, TRUE)
    ELSE saved([self.locations EXCEPT ![zip_code].is_favorite = is_favorite],
               file, io, TRUE)

\* LocationStorage.set_favorite
set_favorite(self, file, zip_code, is_favorite, io) ==
    IF ~Storage_validate_zip_code(zip_code)
    THEN untouched(self, file, Raise("ValueError", "Invalid ZIP code format"))
    ELSE IF zip_code \notin DOMAIN self.locations
    THEN untouched(self, file, Raise("KeyError", "Location not found"))
    ELSE saved([self.locations EXCEPT ![zip_code].is_favorite = is_favorite],
               file, io, TRUE)

\* LocationStorage.clear
clear(self, file, io) == saved(EmptyDict, file, io, "None")

\* LocationStorage.save
save(self, file, io) == saved(self.locations, file, io, "None")

NoStoreCall ==
    [op |-> "none", zip_code |-> <<>>, name |-> "", flag |-> FALSE, io |-> "ok",
     was_stored |-> FALSE, was_favorite |-> FALSE, wrote |-> FALSE,
     file_was |-> "missing", file_kept |-> TRUE, result |-> NoResult]

\* The threads that call the store, and a thread that has not called yet.
\* seen: the keys of self.locations when json.dump began to iterate over it;
\* buffer: what the thread has written to its file object and not yet flushed,
\* a whole document ("json") or the beginning of one ("partial").
ThreadIds == {1, 2}

IdleThread ==
    [pc |-> "idle", op |-> "none", zip_code |-> <<>>, name |-> "", flag |-> FALSE,
     seen |-> {}, buffer |-> [kind |-> "none", text |-> EmptyDict],
     result |-> NoResult]

NoThreads == [t \in ThreadIds |-> IdleThread]

\* The length of the text json.dump(..., indent=2) writes for one location
\* and for a document; datetime.isoformat() is 26 characters long.
EntryLength(m) == 98 + Len(m.name.v) + Len(m.is_favorite.v)

RECURSIVE EntriesLength(_, _)
EntriesLength(text, keys) ==
    IF keys = {} THEN 0
    ELSE LET k == CHOOSE x \in keys : TRUE
         IN  EntryLength(text[k]) + 2 + EntriesLength(text, keys \ {k})

TextLength(text) ==
    IF DOMAIN text = {} THEN 2 ELSE 2 + EntriesLength(text, DOMAIN text)

\* The files that can result when a file object opened with 'w' flushes
\* `buffer` at offset 0 into `file`, which another file object may have
\* written since: the text replaces the beginning of what the file holds.
Flushed(buffer, file) ==
    LET whole == [kind |-> "json", text |-> buffer.text]
    IN  IF buffer.kind = "json"
        THEN CASE file.kind \in {"missing", "empty"} -> {whole}
               [] file.kind = "json" ->
                    IF TextLength(file.text) <= TextLength(buffer.text)
                    THEN {whole}
                    ELSE {InvalidFile}
               [] OTHER -> {whole, InvalidFile}
        ELSE CASE file.kind \in {"missing", "empty"} -> {InvalidFile}
               [] file.kind = "json" -> {file, InvalidFile}
               [] OTHER -> {InvalidFile}

\* No location store is in use.
NoStore ==
    /\ locations = EmptyDict
    /\ storage_file = MissingFile
    /\ store_call = NoStoreCall
    /\ store_calls = 0
    /\ unsaved = FALSE
    /\ threads = NoThreads

----------------------------------------------------------------------------
(* The client's callers and the network *)

Zip10001 == <<"1", "0", "0", "0", "1">>
Zip94107 == <<"9", "4", "1", "0", "7">>

\* The arguments get_weather is called with: two ZIP codes and a string that is
\* too short to be one.
ZipArgs == {Zip10001, Zip94107, <<"1", "2", "3", "4">>}

\* How long the network takes to answer a request.
NetDelays == {0, MaxNetDelay}

\* The bodies the provider answers with.
CoreResponses == {FullResponse, Lacking("temperature"), ErrorPayload}

AllResponses ==
    {FullResponse, ErrorPayload, ErrorPayloadNoInfo, EmptyDict,
     [current |-> FullCurrent], [location |-> FullLocation],
     EmptyList("weather_descriptions"), EmptyList("weather_icons")}
    \cup {Lacking(k) : k \in CurrentKeys \cup LocationKeys}

\* What the network does with a request: requests.get raises, raise_for_status
\* raises, or response.json() is one of `responses`.
Network(failures, responses) ==
    {[kind |-> k, data |-> EmptyDict, delay |-> d] : k \in failures, d \in NetDelays}
    \cup {[kind |-> "json", data |-> r, delay |-> d] : r \in responses, d \in NetDelays}

NoNetwork == [kind |-> "none", data |-> EmptyDict, delay |-> 0]

\* The client object.
Self ==
    [cache_timeout |-> cache_timeout,
     last_request_time |-> last_request_time,
     weather_cache |-> weather_cache,
     cache_timestamps |-> cache_timestamps,
     base_url |-> base_url,
     session |-> session]

\* Whether the cache holds an entry for zip_code that has not expired at time t.
CacheValid(self, zip_code, t) ==
    /\ zip_code \in DOMAIN self.weather_cache
    /\ zip_code \in DOMAIN self.cache_timestamps
    /\ t - self.cache_timestamps[zip_code] < self.cache_timeout

\* Whether the cache holds, for zip_code, a response the parser accepts.
CacheParses(self, zip_code) ==
    /\ zip_code \in DOMAIN self.weather_cache
    /\ ParseFailure(self.weather_cache[zip_code]) = ""

NoCall ==
    [zip_code |-> <<>>, started_at |-> 0, cached_at_start |-> FALSE,
     valid_at_start |-> FALSE, parses_at_start |-> FALSE, after_cleanup |-> FALSE,
     slept |-> 0, found |-> FALSE, requested |-> FALSE, request_at |-> 0, url |-> <<>>,
     returned_at |-> 0, net |-> NoNetwork, result |-> NoResult]

\* No cleanup call yet.  latest: no get_weather call has followed the cleanup.
NoCleanup ==
    [made |-> FALSE, close_raised |-> FALSE, latest |-> FALSE, result |-> NoResult]

\* The default of the constructor's base_url parameter (line 59), and the same
\* address written with https.
DefaultBaseUrl == <<"http", "://", "api.weatherstack.com", "/", "current">>
HttpsBaseUrl == <<"https", "://", "api.weatherstack.com", "/", "current">>

\* A credential of n characters, the middle one a blank when `blank`.
Credential(n, blank) ==
    [i \in 1..n |-> IF blank /\ n >= 3 /\ i = 2 THEN " " ELSE "k"]

\* The constructor call that made the client get_weather is called on.
Constructed(url) ==
    [api_key_arg |-> Credential(MinApiKeyLength, FALSE), base_url_arg |-> url,
     made |-> TRUE,
     client |-> WeatherStackClient(Credential(MinApiKeyLength, FALSE), url).client,
     result |-> WeatherStackClient(Credential(MinApiKeyLength, FALSE), url).result]

\* What a failed get_weather call failed of; "none" when it returned.
Cause(c) ==
    IF c.result.kind # "raise" THEN "none"
    ELSE IF ~Client_validate_zip_code(c.zip_code) THEN "invalid_zip"
    ELSE IF ~c.requested THEN "missing_field"
    ELSE IF c.net.kind = "timeout" THEN "timeout"
    ELSE IF c.net.kind \in {"connection_error", "http_error"} THEN "transport"
    ELSE IF "error" \in DOMAIN c.net.data THEN "provider_error"
    ELSE "missing_field"

\* What is kept of the call before the latest one.
Summary(c) ==
    [zip_code |-> c.zip_code, requested |-> c.requested, request_at |-> c.request_at,
     returned_at |-> c.returned_at]

ZipVerdictNone == [client |-> "unasked", store |-> "unasked"]

\* The state after WeatherStackClient(api_key, url, cache_timeout) returned.
ClientInit(url, timeouts) ==
    /\ now = 1
    /\ cache_timeout \in timeouts
    /\ last_request_time = 0
    /\ weather_cache = EmptyDict
    /\ cache_timestamps = EmptyDict
    /\ base_url = url
    /\ session = "open"
    /\ call = NoCall
    /\ prev_call = Summary(NoCall)
    /\ prev_request_start = 0
    /\ calls = 0
    /\ cleanup_call = NoCleanup
    /\ raised = {}
    /\ construction = Constructed(url)

Init ==
    /\ ClientInit(DefaultBaseUrl, 1..MaxCacheTimeout)
    /\ NoStore
    /\ zip_input = <<>>
    /\ zip_verdict = ZipVerdictNone

\* Time passes between two calls.
Tick ==
    /\ now < MaxTime
    /\ now' = now + 1
    /\ UNCHANGED <<cache_timeout, last_request_time, weather_cache, cache_timestamps,
                   base_url, session, call, prev_call, prev_request_start, calls,
                   cleanup_call, raised, construction, storeVars, zip_input,
                   zip_verdict>>

\* One call get_weather(zip_code), from its first line to its return or raise.
\* `raised` is kept by the specification the call is made in.
GetWeather(zip_code, net, limit) ==
    LET r == get_weather(Self, zip_code, net, now)
    IN  /\ calls < limit
        /\ r.now <= MaxTime
        /\ now' = r.now
        /\ last_request_time' = r.self.last_request_time
        /\ weather_cache' = r.self.weather_cache
        /\ cache_timestamps' = r.self.cache_timestamps
        /\ base_url' = r.self.base_url
        /\ call' = [zip_code |-> zip_code,
                    started_at |-> now,
                    cached_at_start |-> zip_code \in DOMAIN weather_cache,
                    valid_at_start |-> CacheValid(Self, zip_code, now),
                    parses_at_start |-> CacheParses(Self, zip_code),
                    after_cleanup |-> cleanup_call.latest,
                    slept |-> r.slept,
                    found |-> r.found,
                    requested |-> r.requested,
                    request_at |-> r.request_at,
                    url |-> r.url,
                    returned_at |-> r.now,
                    net |-> IF r.requested THEN net ELSE NoNetwork,
                    result |-> r.result]
        /\ prev_call' = Summary(call)
        /\ prev_request_start' =
               IF call.requested THEN call.request_at ELSE prev_request_start
        /\ calls' = calls + 1
        /\ cleanup_call' = [cleanup_call EXCEPT !.latest = FALSE]
        /\ UNCHANGED <<cache_timeout, session, construction, storeVars, zip_input,
                       zip_verdict>>

CoreFailures == {"timeout", "connection_error"}

AllFailures == {"timeout", "connection_error", "http_error"}

Call ==
    \E z \in ZipArgs, net \in Network(CoreFailures, CoreResponses) :
        GetWeather(z, net, MaxCalls) /\ UNCHANGED raised

Next == Tick \/ Call

Spec == Init /\ [][Next]_vars

\* The same client, called for one ZIP code, with every response body and every
\* failure of the network.
AnyResponseCall ==
    \E net \in Network(AllFailures, AllResponses) :
        GetWeather(Zip10001, net, MaxParseCalls) /\ UNCHANGED raised

AnyResponseNext == Tick \/ AnyResponseCall

AnyResponseSpec == Init /\ [][AnyResponseNext]_vars

\* The same client, with every cause a call can fail of; the causes and the
\* exception classes of the failed calls are collected.
ErrorCall ==
    \E z \in ZipArgs, net \in Network(AllFailures, CoreResponses) :
        /\ GetWeather(z, net, MaxErrorCalls)
        /\ raised' = IF call'.result.kind = "raise"
                     THEN raised \cup {<<Cause(call'), call'.result.exc>>}
                     ELSE raised

ErrorNext == Tick \/ ErrorCall

ErrorSpec == Init /\ [][ErrorNext]_vars

\* A client and its cleanup: get_weather calls and cleanup calls in any order.
Cleanup(close_raises) ==
    LET r == cleanup(Self, close_raises)
    IN  /\ weather_cache' = r.self.weather_cache
        /\ cache_timestamps' = r.self.cache_timestamps
        /\ session' = r.self.session
        /\ cleanup_call' = [made |-> TRUE, close_raised |-> close_raises,
                            latest |-> TRUE, result |-> r.result]
        /\ UNCHANGED <<now, cache_timeout, last_request_time, base_url, call,
                       prev_call, prev_request_start, calls, raised, construction,
                       storeVars, zip_input, zip_verdict>>

CleanupCall ==
    \E z \in {Zip10001, Zip94107}, net \in Network({"timeout"}, {FullResponse}) :
        GetWeather(z, net, MaxCleanupCalls) /\ UNCHANGED raised

CleanupNext == Tick \/ CleanupCall \/ (\E close_raises \in BOOLEAN : Cleanup(close_raises))

CleanupInit ==
    /\ ClientInit(DefaultBaseUrl, {MaxCacheTimeout})
    /\ NoStore
    /\ zip_input = <<>>
    /\ zip_verdict = ZipVerdictNone

CleanupSpec == CleanupInit /\ [][CleanupNext]_vars

\* Clients constructed with one base URL or another.
BaseUrls ==
    {DefaultBaseUrl, HttpsBaseUrl,
     <<"https", "://", "api.weatherstack.com", "/", "https", "/", "current">>,
     <<"http", "://", "api.weatherstack.com", "/", "https", "/", "current">>}

UrlInit ==
    /\ \E url \in BaseUrls : ClientInit(url, {MaxCacheTimeout})
    /\ NoStore
    /\ zip_input = <<>>
    /\ zip_verdict = ZipVerdictNone

UrlCall ==
    \E z \in {Zip10001, Zip94107}, net \in Network(CoreFailures, {FullResponse}) :
        GetWeather(z, net, MaxUrlCalls) /\ UNCHANGED raised

UrlNext == Tick \/ UrlCall

UrlSpec == UrlInit /\ [][UrlNext]_vars

\* The constructor, called with one credential or another.
Pads == {<<>>} \cup UNION {[1..n -> Whitespace] : n \in 1..MaxPad}

ApiKeys ==
    {lead \o Credential(n, blank) \o trail :
        lead \in Pads, trail \in Pads, n \in 0..MaxKeyLen, blank \in BOOLEAN}

KeyInit ==
    /\ now = 1
    /\ cache_timeout = MaxCacheTimeout
    /\ last_request_time = 0
    /\ weather_cache = EmptyDict
    /\ cache_timestamps = EmptyDict
    /\ base_url = DefaultBaseUrl
    /\ session = "open"
    /\ call = NoCall
    /\ prev_call = Summary(NoCall)
    /\ prev_request_start = 0
    /\ calls = 0
    /\ cleanup_call = NoCleanup
    /\ raised = {}
    /\ construction \in
           {[api_key_arg |-> k, base_url_arg |-> DefaultBaseUrl, made |-> FALSE,
             client |-> <<>>, result |-> NoResult] : k \in ApiKeys}
    /\ NoStore
    /\ zip_input = <<>>
    /\ zip_verdict = ZipVerdictNone

Construct ==
    LET r == WeatherStackClient(construction.api_key_arg, construction.base_url_arg)
    IN  /\ ~construction.made
        /\ construction' = [construction EXCEPT !.made = TRUE,
                                                !.client = r.client,
                                                !.result = r.result]
        /\ UNCHANGED <<now, cache_timeout, last_request_time, weather_cache,
                       cache_timestamps, base_url, session, call, prev_call,
                       prev_request_start, calls, cleanup_call, raised,
                       storeVars, zip_input, zip_verdict>>

KeyNext == Construct

KeySpec == KeyInit /\ [][KeyNext]_vars

\* The location store and its callers.  The store is constructed on a file
\* that does not exist, or on one an earlier store wrote.
StoreSelf == [locations |-> locations]

LocationNames == {"", "San Francisco", "Oakland"}

StoreFiles ==
    {MissingFile,
     [kind |-> "json",
      text |-> json_dump(Put(EmptyDict, Zip94107,
                   [name |-> "San Francisco", added_at |-> 0, is_favorite |-> TRUE]))]}

StoreInit ==
    /\ ClientInit(DefaultBaseUrl, {MaxCacheTimeout})
    /\ storage_file \in StoreFiles
    /\ locations = load_locations(storage_file).self.locations
    /\ store_call = NoStoreCall
    /\ store_calls = 0
    /\ unsaved = FALSE
    /\ threads = NoThreads
    /\ zip_input = <<>>
    /\ zip_verdict = ZipVerdictNone

\* Time passes between two calls of the store.
StoreTick ==
    /\ now < MaxStoreTime
    /\ now' = now + 1
    /\ UNCHANGED <<cache_timeout, last_request_time, weather_cache, cache_timestamps,
                   base_url, session, call, prev_call, prev_request_start, calls,
                   cleanup_call, raised, construction, storeVars, zip_input,
                   zip_verdict>>

\* One call of a store method, r what the method did.
StoreCall(op, zip_code, name, flag, io, r) ==
    /\ store_calls < MaxStoreCalls
    /\ locations' = r.self.locations
    /\ storage_file' = r.file
    /\ store_call' = [op |-> op, zip_code |-> zip_code, name |-> name, flag |-> flag,
                      io |-> IF r.wrote THEN io ELSE "ok",
                      was_stored |-> zip_code \in DOMAIN locations,
                      was_favorite |-> /\ zip_code \in DOMAIN locations
                                       /\ locations[zip_code].is_favorite,
                      wrote |-> r.wrote, file_was |-> storage_file.kind,
                      file_kept |-> r.file = storage_file,
                      result |-> r.result]
    /\ store_calls' = store_calls + 1
    /\ unsaved' = IF r.wrote THEN r.result.kind = "raise"
                  ELSE IF op = "reload" /\ r.result.kind = "return" THEN FALSE
                  ELSE unsaved
    /\ UNCHANGED <<clientVars, threads, zip_input, zip_verdict>>

AddLocation ==
    \E z \in ZipArgs, n \in LocationNames, io \in IoOutcomes :
        StoreCall("add_location", z, n, FALSE, io,
                  add_location(StoreSelf, storage_file, z, n, now, io))

RemoveLocation ==
    \E z \in ZipArgs, io \in IoOutcomes :
        StoreCall("remove_location", z, "", FALSE, io,
                  remove_location(StoreSelf, storage_file, z, io))

SetFavorite ==
    \E z \in ZipArgs, f \in BOOLEAN, io \in IoOutcomes :
        StoreCall("set_favorite", z, "", f, io,
                  set_favorite(StoreSelf, storage_file, z, f, io))

Clear ==
    \E io \in IoOutcomes :
        StoreCall("clear", <<>>, "", FALSE, io, clear(StoreSelf, storage_file, io))

Save ==
    \E io \in IoOutcomes :
        StoreCall("save", <<>>, "", FALSE, io, save(StoreSelf, storage_file, io))

\* A new LocationStorage is constructed on the same file (lines 42-44) and
\* takes the place of the store; when the constructor raises there is no new
\* store, and the old one stays.
Reload ==
    LET r == load_locations(storage_file)
    IN  StoreCall("reload", <<>>, "", FALSE, "ok",
                  [self |-> IF r.result.kind = "raise" THEN StoreSelf ELSE r.self,
                   file |-> storage_file, wrote |-> FALSE, result |-> r.result])

StoreNext ==
    StoreTick \/ AddLocation \/ RemoveLocation \/ SetFavorite \/ Clear \/ Save
        \/ Reload

StoreSpec == StoreInit /\ [][StoreNext]_vars

\* Two threads call add_location, remove_location or set_favorite on one
\* store.  A step is what a thread does between two points at which the
\* interpreter can switch to the other thread.
ThreadOps ==
    {[op |-> "add_location", zip_code |-> z, name |-> "Oakland", flag |-> FALSE] :
        z \in {Zip10001, Zip94107}}
    \cup {[op |-> "remove_location", zip_code |-> z, name |-> "", flag |-> FALSE] :
        z \in {Zip10001, Zip94107}}
    \cup {[op |-> "set_favorite", zip_code |-> z, name |-> "", flag |-> f] :
        z \in {Zip10001, Zip94107}, f \in BOOLEAN}

ThreadInit ==
    /\ ClientInit(DefaultBaseUrl, {MaxCacheTimeout})
    /\ storage_file \in StoreFiles
    /\ locations = load_locations(storage_file).self.locations
    /\ store_call = NoStoreCall
    /\ store_calls = 0
    /\ unsaved = FALSE
    /\ threads = NoThreads
    /\ zip_input = <<>>
    /\ zip_verdict = ZipVerdictNone

ThreadFrame ==
    UNCHANGED <<clientVars, store_call, store_calls, unsaved, zip_input, zip_verdict>>

\* Thread t has finished with `result`.
Finished(t, result) ==
    [threads EXCEPT ![t].pc = "done", ![t].result = result]

\* The call up to the first statement of the try block: validation, and the
\* membership test of remove_location (line 142) and set_favorite (line 217);
\* for add_location the assignment of lines 114-118 as well.
Start(t) ==
    \E o \in ThreadOps :
        LET called == [threads EXCEPT ![t].op = o.op, ![t].zip_code = o.zip_code,
                                      ![t].name = o.name, ![t].flag = o.flag]
        IN  /\ threads[t].pc = "idle"
            /\ CASE o.op = "add_location" ->
                      /\ locations' = Put(locations, o.zip_code, new_entry(o.name, now))
                      /\ threads' = [called EXCEPT ![t].pc = "open"]
                 [] o.op = "remove_location" /\ o.zip_code \notin DOMAIN locations ->
                      /\ locations' = locations
                      /\ threads' = [called EXCEPT ![t].pc = "done",
                                                   ![t].result = Return(FALSE)]
                 [] o.op = "set_favorite" /\ o.zip_code \notin DOMAIN locations ->
                      /\ locations' = locations
                      /\ threads' = [called EXCEPT
                             ![t].pc = "done",
                             ![t].result = Raise("KeyError", "Location not found")]
                 [] OTHER ->
                      /\ locations' = locations
                      /\ threads' = [called EXCEPT ![t].pc = "mutate"]
            /\ UNCHANGED storage_file
            /\ ThreadFrame

\* remove_location lines 144-145 and set_favorite line 221: the subscript
\* raises KeyError when the key has gone since the membership test, and no
\* except clause of the method catches it.
Mutate(t) ==
    LET z == threads[t].zip_code
    IN  /\ threads[t].pc = "mutate"
        /\ IF z \notin DOMAIN locations
           THEN /\ locations' = locations
                /\ threads' = Finished(t, Raise("KeyError", "subscript"))
           ELSE /\ locations' =
                       IF threads[t].op = "remove_location"
                       THEN Del(locations, z)
                       ELSE [locations EXCEPT ![z].is_favorite = threads[t].flag]
                /\ threads' = [threads EXCEPT ![t].pc = "open"]
        /\ UNCHANGED storage_file
        /\ ThreadFrame

\* _save_locations line 85: open(self.storage_file, 'w') empties the file.
Open(t) ==
    /\ threads[t].pc = "open"
    /\ storage_file' = EmptyFile
    /\ threads' = [threads EXCEPT ![t].pc = "dump"]
    /\ UNCHANGED locations
    /\ ThreadFrame

\* json.dump (line 86) begins to iterate over self.locations.
DumpBegin(t) ==
    /\ threads[t].pc = "dump"
    /\ threads' = [threads EXCEPT ![t].pc = "dumping", ![t].seen = DOMAIN locations]
    /\ UNCHANGED <<locations, storage_file>>
    /\ ThreadFrame

\* json.dump comes to the end of the dict, or finds that its size has changed
\* and raises RuntimeError, which no except clause catches.
DumpEnd(t) ==
    /\ threads[t].pc = "dumping"
    /\ threads' =
          IF threads[t].seen # {} /\ DOMAIN locations # threads[t].seen
          THEN [threads EXCEPT
                   ![t].pc = "close",
                   ![t].buffer = [kind |-> "partial", text |-> EmptyDict],
                   ![t].result = Raise("RuntimeError",
                                       "dictionary changed size during iteration")]
          ELSE [threads EXCEPT
                   ![t].pc = "close",
                   ![t].buffer =
                       [kind |-> "json",
                        text |-> IF threads[t].seen = {} THEN json_dump(EmptyDict)
                                 ELSE json_dump(locations)],
                   ![t].result = Return(TRUE)]
    /\ UNCHANGED <<locations, storage_file>>
    /\ ThreadFrame

\* The with statement of line 85 closes the file object, which flushes what
\* was written to it; the method returns True or lets the exception through.
Close(t) ==
    /\ threads[t].pc = "close"
    /\ storage_file' \in Flushed(threads[t].buffer, storage_file)
    /\ threads' = [threads EXCEPT ![t].pc = "done"]
    /\ UNCHANGED locations
    /\ ThreadFrame

ThreadNext ==
    \E t \in ThreadIds :
        Start(t) \/ Mutate(t) \/ Open(t) \/ DumpBegin(t) \/ DumpEnd(t) \/ Close(t)

ThreadSpec == ThreadInit /\ [][ThreadNext]_vars

\* The constructor of the store, called on one file or another: no file, a
\* file of zero bytes, a file that is not JSON, and JSON objects with keys
\* that are ZIP codes and keys that are not.
FileKeys ==
    {Zip10001, <<"1", "2", "3", "4">>, <<"a", "b", "c", "d", "e">>,
     <<"1", "2", "U+0663", "4", "5">>}

Documents ==
    UNION {[keys -> {[name |-> json_str("Oakland"), added_at |-> json_str(0),
                      is_favorite |-> json_bool(f)] : f \in BOOLEAN}] :
              keys \in SUBSET FileKeys}

LoadFiles ==
    {MissingFile, EmptyFile, InvalidFile}
        \cup {[kind |-> "json", text |-> d] : d \in Documents}

LoadInit ==
    /\ ClientInit(DefaultBaseUrl, {MaxCacheTimeout})
    /\ storage_file \in LoadFiles
    /\ locations = EmptyDict
    /\ store_call = NoStoreCall
    /\ store_calls = 0
    /\ unsaved = FALSE
    /\ threads = NoThreads
    /\ zip_input = <<>>
    /\ zip_verdict = ZipVerdictNone

ConstructStore ==
    LET r == LocationStorage(storage_file)
    IN  /\ store_calls = 0
        /\ locations' = IF r.store = <<>> THEN EmptyDict ELSE r.store[1].locations
        /\ storage_file' = r.file
        /\ store_call' = [NoStoreCall EXCEPT !.op = "init",
                                             !.file_was = storage_file.kind,
                                             !.file_kept = (r.file = storage_file),
                                             !.result = r.result]
        /\ store_calls' = 1
        /\ UNCHANGED <<clientVars, unsaved, threads, zip_input, zip_verdict>>

LoadNext == ConstructStore

LoadSpec == LoadInit /\ [][LoadNext]_vars

----------------------------------------------------------------------------
(* ZIP validation on its own: the string is drawn at the start, and each of  *)
(* the two validators is asked about it.                                     *)

Verdict(accepted) == IF accepted THEN "accepted" ELSE "rejected"

ZipInit ==
    /\ ClientInit(DefaultBaseUrl, {MaxCacheTimeout})
    /\ NoStore
    /\ zip_input \in StringsUpTo(MaxZipLen)
    /\ zip_verdict = ZipVerdictNone

ValidateInClient ==
    /\ zip_verdict.client = "unasked"
    /\ zip_verdict' =
           [zip_verdict EXCEPT !.client = Verdict(Client_validate_zip_code(zip_input))]
    /\ UNCHANGED <<clientVars, storeVars, zip_input>>

ValidateInStore ==
    /\ zip_verdict.store = "unasked"
    /\ zip_verdict' =
           [zip_verdict EXCEPT !.store = Verdict(Storage_validate_zip_code(zip_input))]
    /\ UNCHANGED <<clientVars, storeVars, zip_input>>

ZipNext == ValidateInClient \/ ValidateInStore

ZipSpec == ZipInit /\ [][ZipNext]_vars

----------------------------------------------------------------------------
(* The claims *)

\* A get_weather call has been made and its argument was a valid ZIP code.
ValidCallMade ==
    /\ call.result.kind # "none"
    /\ Client_validate_zip_code(call.zip_code)

\* The latest call sent a request and the provider answered it with `data`.
Answered(data) ==
    /\ call.requested
    /\ call.net.kind = "json"
    /\ call.net.data = data

\* C1 (as claimed): a get_weather(z) call made less than cache_timeout after a
\* successful fetch stored its response for z issues no network request, so the
\* two calls issue one request in total; a call made when the cache holds no
\* entry for z younger than cache_timeout issues a network request.
C1_OneRequestWithinTtl ==
    ValidCallMade =>
        /\ (call.valid_at_start /\ call.parses_at_start) => ~call.requested
        /\ ~call.valid_at_start => call.requested

\* C2 (as claimed): a get_weather(z) call that is served from the cache, the
\* entry for z being younger than cache_timeout, returns the cached reading at
\* once, without a rate-limit wait.
C2_CacheHitWithoutWait ==
    (ValidCallMade /\ call.valid_at_start /\ ~call.requested
        /\ call.result.kind = "return") =>
            (call.slept = 0 /\ call.returned_at = call.started_at)

\* C3 (as claimed): when two get_weather calls for different, uncached ZIP codes
\* are made back-to-back, the second starting when the first returns, their
\* network requests start at least min_request_interval apart.
C3_BackToBackSpacing ==
    (/\ ValidCallMade
     /\ call.requested
     /\ prev_call.requested
     /\ prev_call.zip_code # call.zip_code
     /\ call.started_at = prev_call.returned_at)
        => call.request_at - prev_call.request_at >= MinRequestInterval

\* C4 (as claimed): every network request starts at least min_request_interval
\* after the previous network request of the client, whatever that request's
\* outcome was.
C4_SpacingAfterAnyOutcome ==
    (call.requested /\ prev_request_start > 0)
        => call.request_at - prev_request_start >= MinRequestInterval

\* C5 (as claimed): when the response lacks current.temperature, get_weather
\* raises the malformed-response error naming 'temperature' and the cache holds
\* no entry for that ZIP code afterwards.
C5_MalformedNotCached ==
    Answered(Lacking("temperature")) =>
        /\ call.result.kind = "raise"
        /\ call.result.exc = "KeyError"
        /\ call.result.msg = "Missing required data in API response: 'temperature'"
        /\ call.zip_code \notin DOMAIN weather_cache

\* C6 (as claimed): when the response holds an error object, get_weather raises
\* the error that carries the provider's message, and afterwards neither cache
\* map holds an entry for that ZIP code.
C6_ProviderErrorNotCached ==
    (call.requested /\ call.net.kind = "json" /\ "error" \in DOMAIN call.net.data) =>
        /\ call.result.kind = "raise"
        /\ call.result.exc = "ValueError"
        /\ "info" \in DOMAIN call.net.data.error =>
               call.result.msg = "API Error: " \o call.net.data.error.info
        /\ call.zip_code \notin DOMAIN weather_cache
        /\ call.zip_code \notin DOMAIN cache_timestamps

\* The fields _parse_weather_data reads, and the one more the claim lists.
FieldsRead ==
    {"temperature", "name", "weather_descriptions", "humidity", "wind_speed",
     "weather_icons", "localtime_epoch"}

FieldsClaimed == FieldsRead \cup {"region"}

MalformedRaised ==
    /\ call.result.kind = "raise"
    /\ call.result.exc = "KeyError"

FiveAsciiDigits(s) ==
    /\ Len(s) = ZipLength
    /\ \A i \in 1..Len(s) : s[i] \in AsciiDigits

\* C9 (as claimed): each validator accepts a string exactly when it has length 5
\* and all its characters are ASCII digits, and the two validators agree.
C9_AcceptsExactlyFiveAsciiDigits ==
    /\ zip_verdict.client # "unasked" =>
           (zip_verdict.client = "accepted" <=> FiveAsciiDigits(zip_input))
    /\ zip_verdict.store # "unasked" =>
           (zip_verdict.store = "accepted" <=> FiveAsciiDigits(zip_input))
    /\ (zip_verdict.client # "unasked" /\ zip_verdict.store # "unasked") =>
           zip_verdict.client = zip_verdict.store

\* C10: a get_weather call whose argument fails validation raises ValueError at
\* once: it sends no request, does not wait, and leaves the clock, the two cache
\* maps and the last-request time as they were.
C10_InvalidZipNoSideEffects ==
    [][(calls' = calls + 1 /\ ~Client_validate_zip_code(call'.zip_code)) =>
          /\ call'.result.kind = "raise"
          /\ call'.result.exc = "ValueError"
          /\ ~call'.requested
          /\ call'.slept = 0
          /\ UNCHANGED <<now, last_request_time, weather_cache, cache_timestamps,
                         cache_timeout, base_url, session>>]_vars

\* C10's case: an invalid argument given right after a request was answered and
\* cached, when a valid call would have waited.
C10_Witness ==
    /\ call.result.kind = "raise"
    /\ ~Client_validate_zip_code(call.zip_code)
    /\ last_request_time = now
    /\ weather_cache # EmptyDict

\* The classes of the requests exceptions get_weather lets through.
RequestExceptions == {"requests.ConnectionError", "requests.HTTPError"}

C12_CleanupEmptiesCache ==
    /\ cleanup_call.latest =>
          /\ cleanup_call.result = Return("None")
          /\ weather_cache = EmptyDict
          /\ cache_timestamps = EmptyDict
    /\ (call.after_cleanup /\ Client_validate_zip_code(call.zip_code)) =>
          call.requested

\* The length of s without the whitespace at its two ends.
StrippedLength(s) ==
    LET inked == {i \in 1..Len(s) : s[i] \notin Whitespace}
    IN  IF inked = {} THEN 0
        ELSE (CHOOSE i \in inked : \A j \in inked : j <= i)
             - (CHOOSE i \in inked : \A j \in inked : i <= j) + 1

C14_HttpSameHostAndPath ==
    call.requested =>
        /\ Head(call.url) = "http"
        /\ Tail(call.url) = Tail(construction.base_url_arg)
        /\ base_url = call.url

\* A call of the store method `op` is made in this step.
StoreStep(op) == store_calls' = store_calls + 1 /\ store_call'.op = op

\* The mapping a new store would load from the file as it is after the step.
Persisted == load_locations(storage_file').self.locations

\* C15: when every change of the store has been written to the file, a new
\* store constructed on the file holds the mapping of the store that wrote it:
\* the same ZIP codes with the same names and favorite flags.
C15_ReloadYieldsWrittenMapping ==
    [][(StoreStep("reload") /\ ~unsaved) =>
          /\ store_call'.result.kind = "return"
          /\ DOMAIN locations' = DOMAIN locations
          /\ \A z \in DOMAIN locations :
                /\ locations'[z].name = locations[z].name
                /\ locations'[z].is_favorite = locations[z].is_favorite]_vars

\* A store was reloaded that holds a favorite it was not constructed with:
\* the location was added, made a favorite, and then loaded from the file.
C15_Witness ==
    /\ store_call.op = "reload"
    /\ Zip10001 \in DOMAIN locations
    /\ locations[Zip10001].is_favorite
    /\ locations[Zip10001].name = "San Francisco"

\* C16: remove_location(z) with a valid ZIP code, the file being writable,
\* returns True, removes z and writes the file when z was stored; when z was
\* not stored it returns False, leaves the mapping as it was and does not
\* write the file.
C16_RemoveWritesOnlyWhenStored ==
    [][(/\ StoreStep("remove_location")
        /\ Storage_validate_zip_code(store_call'.zip_code)
        /\ store_call'.io = "ok") =>
          IF store_call'.zip_code \in DOMAIN locations
          THEN /\ store_call'.result = Return(TRUE)
               /\ DOMAIN locations' = DOMAIN locations \ {store_call'.zip_code}
               /\ \A z \in DOMAIN locations' : locations'[z] = locations[z]
               /\ store_call'.wrote
               /\ Persisted = locations'
          ELSE /\ store_call'.result = Return(FALSE)
               /\ locations' = locations
               /\ ~store_call'.wrote
               /\ storage_file' = storage_file]_vars

\* remove_location returned False for a ZIP code the store does not hold,
\* while it holds another.
C16_Witness ==
    /\ store_call.op = "remove_location"
    /\ store_call.result = Return(FALSE)
    /\ locations # EmptyDict

\* C17: set_favorite(z, f) for a valid ZIP code that is not stored raises the
\* not-found error (KeyError) and leaves the store as it was: no entry is
\* created, no entry changes and the file is not written.
C17_SetFavoriteMissingNoEffect ==
    [][(/\ StoreStep("set_favorite")
        /\ Storage_validate_zip_code(store_call'.zip_code)
        /\ store_call'.zip_code \notin DOMAIN locations) =>
          /\ store_call'.result.kind = "raise"
          /\ store_call'.result.exc = "KeyError"
          /\ locations' = locations
          /\ ~store_call'.wrote
          /\ storage_file' = storage_file]_vars

\* set_favorite raised KeyError while the store holds another ZIP code.
C17_Witness ==
    /\ store_call.op = "set_favorite"
    /\ store_call.result.kind = "raise"
    /\ store_call.result.exc = "KeyError"
    /\ locations # EmptyDict

\* C18: add_location with a ZIP code that fails validation, or with an empty
\* name, raises the validation error (ValueError) and has no side effect: the
\* mapping is as it was and the file is not written.
C18_InvalidAddNoEffect ==
    [][(/\ StoreStep("add_location")
        /\ \/ ~Storage_validate_zip_code(store_call'.zip_code)
           \/ store_call'.name = "") =>
          /\ store_call'.result.kind = "raise"
          /\ store_call'.result.exc = "ValueError"
          /\ locations' = locations
          /\ ~store_call'.wrote
          /\ storage_file' = storage_file]_vars

\* add_location raised ValueError for a valid ZIP code and an empty name.
C18_Witness ==
    /\ store_call.op = "add_location"
    /\ Storage_validate_zip_code(store_call.zip_code)
    /\ store_call.name = ""
    /\ store_call.result.kind = "raise"
    /\ store_call.result.exc = "ValueError"

\* C19: add_location(z, n) for a ZIP code that is already stored, the file
\* being writable, returns True and overwrites: the store holds the same ZIP
\* codes as before, as many as before and z among them, the entries of the
\* other ZIP codes are as they were, and the stored name of z is n.
C19_AddOverwrites ==
    [][(/\ StoreStep("add_location")
        /\ store_call'.zip_code \in DOMAIN locations
        /\ store_call'.name # ""
        /\ store_call'.io = "ok") =>
          /\ store_call'.result = Return(TRUE)
          /\ DOMAIN locations' = DOMAIN locations
          /\ Cardinality(DOMAIN locations') = Cardinality(DOMAIN locations)
          /\ \A z \in DOMAIN locations \ {store_call'.zip_code} :
                locations'[z] = locations[z]
          /\ locations'[store_call'.zip_code].name = store_call'.name
          /\ Persisted = locations']_vars

\* add_location returned True for a ZIP code the store already held, and the
\* store holds two ZIP codes, under the name "Oakland" the one just added.
C19_Witness ==
    /\ store_call.op = "add_location"
    /\ store_call.was_stored
    /\ store_call.result = Return(TRUE)
    /\ store_call.name = "Oakland"
    /\ Cardinality(DOMAIN locations) = 2

\* C20 (as claimed): add_location for a ZIP code that is already stored and
\* marked favorite leaves it marked favorite.
C20_ReAddKeepsFavorite ==
    (/\ store_call.op = "add_location"
     /\ store_call.was_favorite
     /\ store_call.result = Return(TRUE)) =>
        locations[store_call.zip_code].is_favorite

\* C21 (as claimed): when writing the file fails during add_location, the call
\* raises the storage error (IOError), the store holds the new entry all the
\* same, and the file keeps the content it had before the call.
C21_WriteFailureKeepsFile ==
    (/\ store_call.op = "add_location"
     /\ store_call.wrote
     /\ store_call.result.kind = "raise") =>
        /\ store_call.result.exc = "IOError"
        /\ store_call.zip_code \in DOMAIN locations
        /\ locations[store_call.zip_code].name = store_call.name
        /\ store_call.file_kept

\* C22 (as claimed): save() on a store whose file cannot be opened for writing
\* returns without raising.
C22_SaveReadOnlyReturns ==
    (store_call.op = "save" /\ store_call.io = "denied") =>
        store_call.result.kind = "return"

\* C23 (as claimed): every key of the store is a string of exactly five
\* digits, also directly after the store was constructed on an existing file.
C23_KeysAreFiveDigits ==
    \A k \in DOMAIN locations : FiveAsciiDigits(k)

\* C24 (as claimed): the constructor yields an empty store when the file is
\* missing and when it is empty (zero bytes), and raises, yielding no store,
\* when the file holds invalid JSON.
C24_EmptyFileYieldsEmptyStore ==
    store_call.op = "init" =>
        /\ store_call.file_was \in {"missing", "empty"} =>
              (store_call.result.kind = "return" /\ locations = EmptyDict)
        /\ store_call.file_was = "invalid" => store_call.result.kind = "raise"

\* C25 (as claimed): the constructor called on a path where no file exists
\* yields an empty store, and a file exists at the path when it has returned.
C25_ConstructorCreatesFile ==
    (store_call.op = "init" /\ store_call.file_was = "missing") =>
        /\ store_call.result.kind = "return"
        /\ locations = EmptyDict
        /\ storage_file.kind # "missing"

\* Thread t's call failed of what the other thread did: json.dump found the
\* dict changed, or the key had gone between the membership test and the
\* subscript.
FailedOfTheOther(t) ==
    /\ threads[t].result.kind = "raise"
    /\ \/ threads[t].result.exc = "RuntimeError"
       \/ threads[t].result.exc = "KeyError" /\ threads[t].result.msg = "subscript"

\* C26 (as claimed): when two threads have called add_location,
\* remove_location or set_favorite on one store and both calls have returned,
\* neither has failed of the other, and the file holds a valid document that
\* is the mapping the store holds.
C26_ThreadSafe ==
    (\A t \in ThreadIds : threads[t].pc = "done") =>
        /\ \A t \in ThreadIds : ~FailedOfTheOther(t)
        /\ (\E t \in ThreadIds : threads[t].buffer.kind # "none") =>
              /\ storage_file.kind = "json"
              /\ json_load(storage_file.text) = locations

\* A get_weather call with a valid ZIP code is made in this step.
LookupStep == calls' = calls + 1 /\ Client_validate_zip_code(call'.zip_code)

\* C27: the lookup of a get_weather(z) call finds the entry of z exactly when
\* the entry is younger than cache_timeout at the time of the lookup, an entry
\* as old as cache_timeout being expired; and an entry, expired or not, stays
\* in the cache with its insertion time through every step that is not a
\* get_weather call for its own ZIP code.
C27_ValidWhileYoungerLazyEviction ==
    [][/\ LookupStep =>
             (call'.found <=>
                 /\ call'.zip_code \in DOMAIN weather_cache
                 /\ call'.zip_code \in DOMAIN cache_timestamps
                 /\ (call'.started_at + call'.slept)
                        - cache_timestamps[call'.zip_code] < cache_timeout)
       /\ \A k \in DOMAIN weather_cache :
             ~(LookupStep /\ call'.zip_code = k) =>
                 /\ k \in DOMAIN weather_cache'
                 /\ k \in DOMAIN cache_timestamps'
                 /\ weather_cache'[k] = weather_cache[k]
                 /\ cache_timestamps'[k] = cache_timestamps[k]]_vars

\* A call for one ZIP code was made when the entry of the other had expired,
\* and that entry is still in the cache.
C27_Witness ==
    /\ call.zip_code = Zip10001
    /\ call.requested
    /\ Zip94107 \in DOMAIN weather_cache
    /\ call.started_at - cache_timestamps[Zip94107] >= cache_timeout

\* C28: a get_weather call that serves its reading from the cache changes
\* neither cache map nor the time of the last request, and it returns before
\* the entry is cache_timeout old.
C28_HitLeavesTimesAlone ==
    [][(LookupStep /\ call'.found /\ ~call'.requested) =>
          /\ UNCHANGED <<weather_cache, cache_timestamps, last_request_time>>
          /\ call'.returned_at
                < cache_timestamps[call'.zip_code] + cache_timeout]_vars

\* Two calls in a row for one ZIP code were both served from the cache.
C28_Witness ==
    /\ call.found
    /\ ~call.requested
    /\ call.result.kind = "return"
    /\ prev_call.zip_code = call.zip_code
    /\ ~prev_call.requested

\* C29 (as claimed): after a get_weather(z) call whose request timed out,
\* failed in transport, was answered with an HTTP error status or with a
\* provider error payload, neither cache map holds an entry for z.
C29_FailedRequestLeavesNoEntry ==
    (/\ call.requested
     /\ \/ call.net.kind \in AllFailures
        \/ call.net.kind = "json" /\ "error" \in DOMAIN call.net.data) =>
        /\ call.zip_code \notin DOMAIN weather_cache
        /\ call.zip_code \notin DOMAIN cache_timestamps

\* C30: the map of cached responses and the map of insertion times have the
\* same keys, and no get_weather call raises the KeyError of an eviction that
\* misses a key.
C30_CacheMapsSameKeys ==
    /\ DOMAIN weather_cache = DOMAIN cache_timestamps
    /\ call.result # Raise("KeyError", "")

\* The cache holds an entry after get_weather calls and a cleanup call, a
\* get_weather call having followed the cleanup.
C30_Witness ==
    /\ cleanup_call.made
    /\ call.after_cleanup
    /\ call.requested
    /\ weather_cache # EmptyDict

====
